---- MODULE Spec2Model ----
(***************************************************************************)
(* Model of pct-bot (src/index.ts): a Discord bot that turns forum threads *)
(* into GitHub issues.  The file holds two variants of the bot:            *)
(*   "plain"  lines   1-189  (thread transcript used as the issue body)    *)
(*   "ai"     lines 191-445  (issue text produced by a language model)     *)
(* Every await of a handler is one step of the model, so handlers of       *)
(* different messages interleave exactly at their await points.            *)
(***************************************************************************)
EXTENDS Integers, Sequences, FiniteSets, TLC

VARIABLES
  variant,      \* "plain" or "ai": which of the two programs is running
  channel,      \* the channel the messages arrive in (thread, parent, tags)
  threadName,   \* thread.name
  appliedTags,  \* thread.appliedTags (set of tag ids)
  msgs,         \* the channel's existing messages, oldest first
  nextId,       \* id given to the next message created
  issues,       \* the repository's issues, issue number = index
  inv,          \* one record per MessageCreate event: the handler's state
  disturbances  \* failed remote calls, chat events and overlapping commands so far

vars == <<variant, channel, threadName, appliedTags, msgs, nextId, issues,
          inv, disturbances>>

----------------------------------------------------------------------------
(* Bounds of the model                                                     *)

MaxInvocations == 2   \* owner commands handled
\* how many times a run may be disturbed: by a command that arrives while
\* another handler is suspended at an await, by a remote call that fails for
\* an environmental reason, or by other chat (one message, or one burst)
MaxDisturbances == 1

----------------------------------------------------------------------------
(* Program constants                                                       *)

FetchLimit == 100          \* thread.messages.fetch({ limit: 100 })
GuildForum == 15           \* thread.parent?.type !== 15
ChannelNameChange == 4     \* msg.type === 4
ReferenceLimit == 50       \* reference.length > 50
ReferenceKeep == 47        \* reference.slice(0, 47)
PlainDelay == 10000        \* setTimeout(resolve, 10000)
AiDelay == 60000           \* setTimeout(resolve, 60000)

OWNER_DISCORD_ID == "owner"
BotUserId == "bot"
GITHUB_REPO == "o/r"
ThreadUrl == "https://discord.com/channels/1/2"

AlreadyExistsText == "Issue already exists for this thread."
NoTrackedText == "No tracked issue found in this thread."
UpdatedText == "Issue updated."
ErrorText == "Error processing request."
NotForumText == "This command must be used inside a forum thread."

\* the argument of message.react, written by its code points (a string of
\* the model holds the characters up to U+00FF only): the plain program
\* passes the brain emoji (lines 123, 167), the AI program the four
\* characters that the emoji's UTF-8 bytes give when read as Windows-1252
\* (lines 374, 423)
BrainEmoji == "U+1F9E0"
BrainMisread == "U+00F0 U+0178 U+00A7 U+00A0"
Brain(v) == IF v = "plain" THEN BrainEmoji ELSE BrainMisread

\* the platform knows the string as an emoji
KnownEmoji(e) == e = BrainEmoji

NullValue == "<null>"      \* JSON null of a nullable schema field

----------------------------------------------------------------------------
(* JavaScript string functions, computed on the characters                 *)

Min(a, b) == IF a < b THEN a ELSE b

CharAt(s, i) == SubSeq(s, i, i)

StartsWith(s, p) == Len(s) >= Len(p) /\ SubSeq(s, 1, Len(p)) = p

OccursAt(s, p, i) == i >= 1 /\ i + Len(p) - 1 <= Len(s) /\ SubSeq(s, i, i + Len(p) - 1) = p

Includes(s, p) == \E i \in 1..(Len(s) + 1) : OccursAt(s, p, i)

\* the characters String.prototype.toLowerCase changes, of the characters up
\* to U+00FF, and what it makes of each: A-Z, and U+00C0-U+00DE without the
\* multiplication sign U+00D7
UpperChars == "ABCDEFGHIJKLMNOPQRSTUVWXYZÀÁÂÃÄÅÆÇÈÉÊËÌÍÎÏÐÑÒÓÔÕÖØÙÚÛÜÝÞ"
LowerChars == "abcdefghijklmnopqrstuvwxyzàáâãäåæçèéêëìíîïðñòóôõöøùúûüýþ"

LowerChar(c) ==
  IF \E k \in 1..Len(UpperChars) : CharAt(UpperChars, k) = c
  THEN CharAt(LowerChars, CHOOSE k \in 1..Len(UpperChars) : CharAt(UpperChars, k) = c)
  ELSE c

RECURSIVE ToLowerCase(_)
ToLowerCase(s) ==
  IF Len(s) = 0 THEN "" ELSE LowerChar(CharAt(s, 1)) \o ToLowerCase(SubSeq(s, 2, Len(s)))

\* the characters String.prototype.trim strips (WhiteSpace and
\* LineTerminator), of the characters a string of the model can hold, the
\* ones up to U+00FF: tab, line feed, vertical tab, form feed, carriage
\* return, space and the no-break space U+00A0
IsSpace(c) == c \in {"\t", "\n", "", "\f", "\r", " ", " "}

RECURSIVE TrimStart(_)
TrimStart(s) ==
  IF Len(s) > 0 /\ IsSpace(CharAt(s, 1)) THEN TrimStart(SubSeq(s, 2, Len(s))) ELSE s

RECURSIVE TrimEnd(_)
TrimEnd(s) ==
  IF Len(s) > 0 /\ IsSpace(CharAt(s, Len(s))) THEN TrimEnd(SubSeq(s, 1, Len(s) - 1)) ELSE s

Trim(s) == TrimEnd(TrimStart(s))

\* s.split(sep) for a one-character separator
RECURSIVE Split(_, _)
Split(s, sep) ==
  IF \E i \in 1..Len(s) : CharAt(s, i) = sep
  THEN LET i == CHOOSE k \in 1..Len(s) :
                  CharAt(s, k) = sep /\ \A m \in 1..(k - 1) : CharAt(s, m) # sep
       IN <<SubSeq(s, 1, i - 1)>> \o Split(SubSeq(s, i + 1, Len(s)), sep)
  ELSE <<s>>

RECURSIVE Join(_, _)
Join(parts, sep) ==
  IF Len(parts) = 0 THEN ""
  ELSE IF Len(parts) = 1 THEN parts[1]
  ELSE parts[1] \o sep \o Join(Tail(parts), sep)

Digits == "0123456789"
IsDigit(c) == \E k \in 1..Len(Digits) : CharAt(Digits, k) = c
DigitValue(c) == (CHOOSE k \in 1..Len(Digits) : CharAt(Digits, k) = c) - 1

\* parseInt on a string of decimal digits
RECURSIVE ParseInt(_)
ParseInt(d) ==
  IF Len(d) = 0 THEN 0
  ELSE 10 * ParseInt(SubSeq(d, 1, Len(d) - 1)) + DigitValue(CharAt(d, Len(d)))

----------------------------------------------------------------------------
(* TRACKED_IN_REGEX = /Tracked in (https:\/\/github\.com\/.*\/issues\/(\d+))/ *)

MarkerHead == "Tracked in https://github.com/"
MarkerTail == "/issues/"

\* the characters '.' does not match (LineTerminator), of the characters up
\* to U+00FF: line feed and carriage return
IsLineTerminator(c) == c \in {"\n", "\r"}

\* the positions where "/issues/<digit>" can end the greedy .* that starts
\* after the head found at position i
TailPositions(s, i) ==
  { j \in (i + Len(MarkerHead))..Len(s) :
      /\ OccursAt(s, MarkerTail, j)
      /\ j + Len(MarkerTail) <= Len(s)
      /\ IsDigit(CharAt(s, j + Len(MarkerTail)))
      /\ \A m \in (i + Len(MarkerHead))..(j - 1) : ~IsLineTerminator(CharAt(s, m)) }

HeadPositions(s) ==
  { i \in 1..Len(s) : OccursAt(s, MarkerHead, i) /\ TailPositions(s, i) # {} }

\* content.match(TRACKED_IN_REGEX) is not null
TRACKED_IN_REGEX(s) == HeadPositions(s) # {}

RECURSIVE DigitRun(_, _)
DigitRun(s, k) ==
  IF k <= Len(s) /\ IsDigit(CharAt(s, k)) THEN CharAt(s, k) \o DigitRun(s, k + 1) ELSE ""

SetMin(S) == CHOOSE x \in S : \A y \in S : x <= y
SetMax(S) == CHOOSE x \in S : \A y \in S : x >= y

\* match[2]: the digits after the last "/issues/" of the leftmost match
MatchIssueDigits(s) ==
  LET i == SetMin(HeadPositions(s))
      j == SetMax(TailPositions(s, i))
  IN DigitRun(s, j + Len(MarkerTail))

----------------------------------------------------------------------------
(* Messages, the fetch window and the tracking-marker scan                 *)

None == <<>>              \* null / undefined
Some(x) == <<x>>

MessageTypes == {0, ChannelNameChange}

Message(id, author, content, type) ==
  [id |-> id, author |-> author, content |-> content, type |-> type,
   createdTimestamp |-> id, reference |-> None, attachments |-> <<>>]

MessageExists(ms, id) == \E k \in 1..Len(ms) : ms[k].id = id

\* variant of the deletion that takes the older messages along
RemoveMessageAndOlder(ms, id) == SelectSeq(ms, LAMBDA m : m.id > id)

RemoveMessage(ms, id) == SelectSeq(ms, LAMBDA m : m.id # id)

\* thread.messages.fetch({ limit: 100 }): the most recent messages, newest first
Fetch(ms) ==
  LET n == Len(ms)
      k == Min(n, FetchLimit)
  IN [x \in 1..k |-> ms[n - x + 1]]

\* variant of the author filter that forgets the bot's own messages
ByOwnerOnly(msg) == msg.author = OWNER_DISCORD_ID

\* msg.author.id === OWNER_DISCORD_ID || msg.author.id === bot.user?.id
ByOwnerOrBot(msg) == msg.author = OWNER_DISCORD_ID \/ msg.author = BotUserId

\* variant of the marker test that accepts the owner's markers only
IsMarkerOwnerOnly(msg) == msg.author = OWNER_DISCORD_ID /\ TRACKED_IN_REGEX(msg.content)

IsMarker(msg) == ByOwnerOrBot(msg) /\ TRACKED_IN_REGEX(msg.content)

\* variant of the duplicate check that looks at the newest message only
NewestIsMarker(fetched) == Len(fetched) > 0 /\ IsMarker(fetched[1])

\* the duplicate check of processTrack: some fetched message is a marker
HasMarker(fetched) == \E k \in 1..Len(fetched) : IsMarker(fetched[k])

\* the scan of processUpdate: parseInt(match[2]) of the first marker in fetch
\* order, null when there is none
ScanTrackedNumber(fetched) ==
  IF HasMarker(fetched)
  THEN LET k == SetMin({x \in 1..Len(fetched) : IsMarker(fetched[x])})
       IN Some(ParseInt(MatchIssueDigits(fetched[k].content)))
  ELSE None

\* variant of the test that treats a missing number as found
NotTrackedZeroOnly(trackedNumber) == trackedNumber # None /\ trackedNumber[1] = 0

\* !trackedNumber
NotTracked(trackedNumber) == trackedNumber = None \/ trackedNumber[1] = 0

----------------------------------------------------------------------------
(* summarizeThread                                                         *)

\* variant of the sort that leaves the messages in fetch order
KeepFetchOrder(ms) == ms

\* messages.sort((a, b) => a.createdTimestamp - b.createdTimestamp): a stable
\* sort, so a message's place is the number of messages that are earlier, or
\* equally old and before it in fetch order
SortByCreated(ms) ==
  LET n == Len(ms)
      Before(y, x) ==
        \/ ms[y].createdTimestamp < ms[x].createdTimestamp
        \/ (ms[y].createdTimestamp = ms[x].createdTimestamp /\ y < x)
      place == [x \in 1..n |-> Cardinality({y \in 1..n : Before(y, x)}) + 1] \o <<>>
  IN [k \in 1..n |-> ms[CHOOSE x \in 1..n : place[x] = k]] \o <<>>

\* the messages the plain transcript leaves out (lines 34-38)
SkippedPlain(msg) ==
  \/ msg.type = ChannelNameChange
  \/ msg.author = BotUserId
  \/ TRACKED_IN_REGEX(msg.content)
  \/ (msg.author = OWNER_DISCORD_ID /\ StartsWith(msg.content, "!"))

\* the messages the AI transcript leaves out (line 240)
SkippedAi(msg) == msg.author = BotUserId

RECURSIVE AttachmentLines(_)
AttachmentLines(atts) ==
  IF Len(atts) = 0 THEN "" ELSE "\n[" \o Head(atts) \o "]" \o AttachmentLines(Tail(atts))

ReferenceGet(refs, id) == IF id \in DOMAIN refs THEN refs[id] ELSE "undefined"

\* let reference = messageContent.trim().split('\n')[0], cut to 47 + '...'
ReferenceOf(messageContent) ==
  LET first == Split(Trim(messageContent), "\n")[1]
  IN IF Len(first) > ReferenceLimit THEN SubSeq(first, 1, ReferenceKeep) \o "..." ELSE first

\* the pieces of text, joined in order
RECURSIVE Concat(_, _, _)
Concat(pieces, lo, hi) ==
  IF lo > hi THEN ""
  ELSE IF lo = hi THEN pieces[lo]
  ELSE LET mid == (lo + hi) \div 2
       IN Concat(pieces, lo, mid) \o Concat(pieces, mid + 1, hi)

\* messageContent of the plain transcript (lines 42-48)
MessageContent(msg) ==
  (IF msg.content # "" THEN "\n" \o msg.content ELSE "") \o AttachmentLines(msg.attachments)

\* the references map when the forEach reaches the k-th sorted message: one
\* entry for every earlier message that was not skipped
ReferencesBefore(sorted, k) ==
  LET kept == {p \in 1..(k - 1) : ~SkippedPlain(sorted[p])}
  IN [id \in {sorted[p].id : p \in kept} |->
        ReferenceOf(MessageContent(sorted[CHOOSE p \in kept : sorted[p].id = id]))]

\* what one iteration of the plain forEach appends to content
\* ("^" stands for the arrow glyph of line 40)
PlainPiece(sorted, k) ==
  LET msg == sorted[k] IN
    IF SkippedPlain(msg) THEN ""
    ELSE "\n\n"
         \o (IF msg.reference # None
             THEN "^<sub>" \o ReferenceGet(ReferencesBefore(sorted, k), msg.reference[1])
                  \o "</sub>\n"
             ELSE "")
         \o "**" \o msg.author \o "**" \o MessageContent(msg)

\* the forEach of the plain summarizeThread
RenderPlain(sorted, content) ==
  content \o Concat([k \in 1..Len(sorted) |-> PlainPiece(sorted, k)] \o <<>>, 1, Len(sorted))

\* what one iteration of the AI forEach appends to rawContent
AiPiece(sorted, k) ==
  LET msg == sorted[k] IN
    IF SkippedAi(msg) THEN ""
    ELSE "Message ID " \o ToString(msg.id) \o " "
         \o (IF msg.reference # None
             THEN "(replies to " \o ToString(msg.reference[1]) \o ")"
             ELSE "")
         \o " " \o msg.author \o ": " \o msg.content \o "\n\n"

\* the forEach of the AI summarizeThread
RenderAi(sorted, rawContent) ==
  rawContent \o Concat([k \in 1..Len(sorted) |-> AiPiece(sorted, k)] \o <<>>, 1, Len(sorted))

\* summarizeThread(thread), given what its fetch returned
summarizeThread(v, fetched, name) ==
  IF v = "plain"
  THEN RenderPlain(SortByCreated(fetched), "Thread " \o ThreadUrl)
  ELSE RenderAi(SortByCreated(fetched), "Thread title: " \o name \o "\n\n")

----------------------------------------------------------------------------
(* Labels and issue text                                                   *)

\* variant of the classification that looks at the start of the name only
isFeatureChannelPrefix(name) == StartsWith(ToLowerCase(name), "feature")

isFeatureChannel(name) == Includes(ToLowerCase(name), "feature")

\* const labels = ['discord'] / ['discord', 'auto-generated'], then the push
Labels(v, parentName) ==
  (IF v = "plain" THEN <<"discord">> ELSE <<"discord", "auto-generated">>)
  \o (IF isFeatureChannel(ToLowerCase(parentName)) THEN <<"enhancement">> ELSE <<"bug">>)

\* variant of the test that takes every string, the empty one too
TruthyNotNull(field) == field # NullValue

\* JavaScript truthiness of a nullable string field
Truthy(field) == field # NullValue /\ field # ""

formatBugReport(summary) ==
  Join(<<"### Description\n\n" \o summary.description>>
       \o (IF Truthy(summary.replicationSteps)
           THEN <<"### How to replicate the issue\n\n" \o summary.replicationSteps>> ELSE <<>>)
       \o (IF Truthy(summary.extensionVersion)
           THEN <<"### Extension version\n\n" \o summary.extensionVersion>> ELSE <<>>)
       \o (IF Truthy(summary.browsersUsed)
           THEN <<"### Browser(s) used\n\n" \o summary.browsersUsed>> ELSE <<>>),
       "\n\n")

\* title and body of the AI variant, from the model's summary (lines 321-333)
AiTitle(summary) == summary.title

AiBody(summary, parentName) ==
  (IF isFeatureChannel(ToLowerCase(parentName))
   THEN summary.description
   ELSE formatBugReport(summary))
  \o "\n\nTracked in " \o ThreadUrl

\* variant of the URL that names the repository's issue list only
HtmlUrlOfList(n) == "https://github.com/" \o GITHUB_REPO \o "/issues"

\* issue.data.html_url of issue number n
HtmlUrl(n) == "https://github.com/" \o GITHUB_REPO \o "/issues/" \o ToString(n)

----------------------------------------------------------------------------
(* The environment the bot runs in                                         *)

VariantNames == {"plain", "ai"}

SolvedTag == [id |-> "t1", name |-> "solved"]
TrackedTag == [id |-> "t2", name |-> "Tracked"]

\* the channel the messages arrive in: a plain text channel, a thread of a
\* text channel, or a forum thread (with or without a 'tracked' tag)
Forum(name, tags) ==
  [isThread |-> TRUE, parentType |-> GuildForum, parentName |-> name, availableTags |-> tags]

Channels ==
  { [isThread |-> FALSE, parentType |-> 0, parentName |-> "general", availableTags |-> <<>>],
    [isThread |-> TRUE, parentType |-> 0, parentName |-> "general", availableTags |-> <<>>],
    Forum("bug-reports", <<>>),
    Forum("bug-reports", <<SolvedTag, TrackedTag>>),
    Forum("New-FEATURES", <<SolvedTag, TrackedTag>>) }

\* what the owner and the other users type
OwnerInputs ==
  { "!track", "!track Crash v2", "!update", "!update now\r\n",
    "!trac", "Tracked in https://github.com/o/r/issues/7" }
UserInputs == { "!track", "Tracked in https://github.com/o/r/issues/9" }

EventInputs ==
  { <<OWNER_DISCORD_ID, c>> : c \in OwnerInputs } \cup { <<"user", c>> : c \in UserInputs }

BurstSizes == { FetchLimit - 2, FetchLimit - 1 }
BurstText == "me too"

\* what the language model answers (JSON.parse of output_text)
BugSummaries ==
  { [title |-> "Crash", description |-> "It crashes", replicationSteps |-> NullValue,
     extensionVersion |-> NullValue, browsersUsed |-> NullValue],
    [title |-> "Crash", description |-> "It crashes", replicationSteps |-> "Press save",
     extensionVersion |-> "1.2", browsersUsed |-> "Firefox"] }
FeatureSummaries == { [title |-> "Dark mode", description |-> "Add a dark mode"] }

Summaries(parentName) ==
  IF isFeatureChannel(ToLowerCase(parentName)) THEN FeatureSummaries ELSE BugSummaries

----------------------------------------------------------------------------
(* Handler state                                                           *)

Finished == {"ignored", "done", "escaped"}

NewInvocation(id, author, content, pc, after) ==
  [msgId |-> id, author |-> author, content |-> content, pc |-> pc,
   phase |-> "pre",            \* "pre": before the try, "try", "catch"
   calls |-> <<>>,             \* the remote calls made, in order
   trackedNumber |-> None, title |-> "", body |-> "", labels |-> <<>>,
   rawContent |-> "", summary |-> None, existing |-> None, issueNumber |-> None, notice |-> None, noticeText |-> "",
   \* bookkeeping of when things happened, read by the properties only
   after |-> after,            \* the invocations that had finished on arrival
   fetchNext |-> 0,            \* nextId when the marker scan's fetch returned
   oldest |-> 0,               \* the oldest message id that fetch returned
   markerId |-> 0]             \* id of the 'Tracked in' message it posted

Entry(op, arg, ok) == [op |-> op, arg |-> arg, ok |-> ok]

Logged(r, op, arg, ok) == [r EXCEPT !.calls = Append(@, Entry(op, arg, ok))]

\* replaceWithNotice(thread, message, reply) is entered
EnterNotice(r, reply) == [r EXCEPT !.pc = "noticeSend", !.noticeText = reply]

\* an exception is thrown in the handler: the try block's catch runs
\* replaceWithNotice('Error processing request.'); anywhere else the
\* rejection leaves the handler
Throw(r) ==
  IF r.phase = "try"
  THEN EnterNotice([r EXCEPT !.phase = "catch"], ErrorText)
  ELSE [r EXCEPT !.pc = "escaped"]

\* the environment may fail a remote call, within the bound
MayFail(ok) == ok \/ disturbances < MaxDisturbances
Count(ok) == IF ok THEN disturbances ELSE disturbances + 1

\* message.react(e): the platform may also reject a string it does not know
\* as an emoji, which is no disturbance of the run
MayReject(ok, e) == MayFail(ok) \/ ~KnownEmoji(e)
CountReact(ok, e) == IF ok \/ ~KnownEmoji(e) THEN disturbances ELSE disturbances + 1

\* the process is alive: the listener's promise is handled nowhere, so the
\* first rejection that leaves a handler ends the process, and with it every
\* handler suspended at an await
Running == \A k \in DOMAIN inv : inv[k].pc # "escaped"

At(i, pc) == i \in DOMAIN inv /\ inv[i].pc = pc

Put(i, r) == inv' = [inv EXCEPT ![i] = r]

\* variant of the authorization that forgets the author check
AuthorizedAnyAuthor(author, content) ==
  StartsWith(content, "!track") \/ StartsWith(content, "!update")

Authorized(author, content) ==
  /\ author = OWNER_DISCORD_ID
  /\ (StartsWith(content, "!track") \/ StartsWith(content, "!update"))

\* variant of the context check that accepts every thread
ValidContextAnyThread(ch) == ch.isThread

\* thread && thread.parent?.type === 15
ValidContext(ch) == ch.isThread /\ ch.parentType = GuildForum

\* variant of the title that keeps the first word after the command only
TitleOfOneWord(content) ==
  LET words == Split(content, " ") IN IF Len(words) >= 2 THEN Trim(words[2]) ELSE ""

\* message.content.split(' ').slice(1).join(' ').trim()
TitleOf(content) == Trim(Join(Tail(Split(content, " ")), " "))

\* variant of the handler's start that goes to the work without the reaction
FirstStepNoReact(v, ch, author, content) ==
  IF ~Authorized(author, content) THEN "ignored"
  ELSE IF ~ValidContext(ch) THEN "rejectSend"
  ELSE IF StartsWith(content, "!track") THEN "trackFetch"
  ELSE "updateFetch"

\* where the handler first suspends (lines 153-167): nowhere for a message
\* it ignores, else at the rejection reply, the rename or the reaction
FirstStep(v, ch, author, content) ==
  IF ~Authorized(author, content) THEN "ignored"
  ELSE IF ~ValidContext(ch) THEN "rejectSend"
  ELSE IF v = "plain" /\ TitleOf(content) # "" THEN "threadEdit"
  ELSE "react"

\* variant of the delay that uses the shorter one in both programs
NoticeDelayShort(v) == PlainDelay

NoticeDelay(v) == IF v = "plain" THEN PlainDelay ELSE AiDelay

\* channel.availableTags.find(tag => tag.name.toLowerCase() === 'tracked')
FindTrackedTag(tags) ==
  LET hits == {k \in 1..Len(tags) : ToLowerCase(tags[k].name) = "tracked"}
  IN IF hits = {} THEN None ELSE Some(tags[SetMin(hits)])

\* the events that passed the authorization of lines 153-154
Quiescent == \A k \in DOMAIN inv : inv[k].pc \in Finished

Passed == {k \in DOMAIN inv : inv[k].pc # "ignored"}

----------------------------------------------------------------------------
Init ==
  /\ variant \in VariantNames
  /\ channel \in Channels
  /\ threadName = "Crash on save"
  /\ appliedTags = IF channel.availableTags = <<>> THEN {} ELSE {SolvedTag.id}
  /\ msgs = <<Message(1, "user", "It crashes", 0)>>
  /\ nextId = 2
  /\ issues = <<>>
  /\ inv = <<>>
  /\ disturbances = 0

----------------------------------------------------------------------------
(* bot.on(Events.MessageCreate, ...): a message is created in the channel  *)
(* and the handler runs up to its first await                              *)

MessageCreate(author, content) ==
  /\ Running
  /\ IF Authorized(author, content)
     THEN /\ Cardinality(Passed) < MaxInvocations
          /\ Quiescent \/ disturbances < MaxDisturbances
          /\ disturbances' = IF Quiescent THEN disturbances ELSE disturbances + 1
     ELSE /\ disturbances < MaxDisturbances
          /\ disturbances' = disturbances + 1
  /\ msgs' = Append(msgs, Message(nextId, author, content, 0))
  /\ nextId' = nextId + 1
  /\ LET pc == FirstStep(variant, channel, author, content)
         after == {k \in DOMAIN inv : inv[k].pc \in Finished}
     IN inv' = Append(inv, NewInvocation(nextId, author, content, pc, after))
  /\ UNCHANGED <<variant, channel, threadName, appliedTags, issues>>

\* a run of chat messages by another user, at any moment: before the first
\* command, between two commands or while a handler is suspended at an
\* await; the handler returns at once for each of them (line 153)
ChatBurst(n) ==
  /\ Running
  /\ disturbances < MaxDisturbances
  /\ ~Authorized("user", BurstText)
  /\ msgs' = msgs \o [k \in 1..n |-> Message(nextId + k - 1, "user", BurstText, 0)]
  /\ nextId' = nextId + n
  /\ disturbances' = disturbances + 1
  /\ UNCHANGED <<variant, channel, threadName, appliedTags, issues, inv>>

\* await message.channel.send('This command must be used inside a forum thread.')
RejectSend(i, ok) ==
  /\ Running /\ At(i, "rejectSend") /\ MayFail(ok)
  /\ LET r == Logged(inv[i], "send", NotForumText, ok) IN
       IF ok
       THEN /\ msgs' = Append(msgs, Message(nextId, BotUserId, NotForumText, 0))
            /\ nextId' = nextId + 1
            /\ Put(i, [r EXCEPT !.pc = "done"])
       ELSE /\ Put(i, Throw(r))
            /\ UNCHANGED <<msgs, nextId>>
  /\ disturbances' = Count(ok)
  /\ UNCHANGED <<variant, channel, threadName, appliedTags, issues>>

\* await thread.edit({ name: title }); the platform records the rename as a
\* system message in the thread
ThreadEdit(i, ok) ==
  /\ Running /\ At(i, "threadEdit") /\ MayFail(ok)
  /\ LET title == TitleOf(inv[i].content)
         r == Logged(inv[i], "edit", title, ok) IN
       IF ok
       THEN /\ threadName' = title
            /\ msgs' = Append(msgs, Message(nextId, BotUserId, title, ChannelNameChange))
            /\ nextId' = nextId + 1
            /\ Put(i, [r EXCEPT !.pc = "react"])
       ELSE /\ Put(i, Throw(r))
            /\ UNCHANGED <<threadName, msgs, nextId>>
  /\ disturbances' = Count(ok)
  /\ UNCHANGED <<variant, channel, appliedTags, issues>>

\* await message.react(...), then the try block dispatches on the prefix
React(i, ok) ==
  /\ Running /\ At(i, "react") /\ MayReject(ok, Brain(variant))
  /\ LET done == ok /\ MessageExists(msgs, inv[i].msgId)
         r == Logged(inv[i], "react", Brain(variant), done) IN
       IF done
       THEN Put(i, [r EXCEPT !.phase = "try",
                             !.pc = IF StartsWith(r.content, "!track") THEN "trackFetch"
                                    ELSE "updateFetch"])
       ELSE Put(i, Throw(r))
  /\ disturbances' = CountReact(ok, Brain(variant))
  /\ UNCHANGED <<variant, channel, threadName, appliedTags, msgs, nextId, issues>>

----------------------------------------------------------------------------
(* processTrack                                                            *)

\* const messages = await thread.messages.fetch({ limit: 100 }) and the
\* duplicate check over them
TrackFetch(i, ok) ==
  /\ Running /\ At(i, "trackFetch") /\ MayFail(ok)
  /\ LET fetched == Fetch(msgs)
         r == [Logged(inv[i], "fetch", "track", ok) EXCEPT
                 !.fetchNext = nextId, !.oldest = fetched[Len(fetched)].id] IN
       IF ok
       THEN IF HasMarker(fetched)
            THEN Put(i, EnterNotice(r, AlreadyExistsText))
            ELSE Put(i, [r EXCEPT !.pc = "summarize"])
       ELSE Put(i, Throw(Logged(inv[i], "fetch", "track", ok)))
  /\ disturbances' = Count(ok)
  /\ UNCHANGED <<variant, channel, threadName, appliedTags, msgs, nextId, issues>>

\* await summarizeThread(thread), for !track and for !update; the plain
\* variant goes on to build the issue-tracker call (title: thread.name)
Summarize(i, ok) ==
  /\ Running /\ At(i, "summarize") /\ MayFail(ok)
  /\ LET r == Logged(inv[i], "fetch", "summarize", ok)
         text == summarizeThread(variant, Fetch(msgs), threadName)
         write == IF StartsWith(r.content, "!track") THEN "issueCreate" ELSE "issueUpdate" IN
       IF ~ok THEN Put(i, Throw(r))
       ELSE IF variant = "plain"
       THEN Put(i, [r EXCEPT !.body = text, !.title = threadName,
                             !.labels = Labels(variant, channel.parentName),
                             !.pc = write])
       ELSE Put(i, [r EXCEPT !.rawContent = text, !.pc = "generate"])
  /\ disturbances' = Count(ok)
  /\ UNCHANGED <<variant, channel, threadName, appliedTags, msgs, nextId, issues>>

\* await generateNewIssue(...) / updateExistingIssue(...): the model's answer
\* is any summary of the schema; a failed call or unparseable answer throws
Generate(i, ok, summary) ==
  /\ Running /\ At(i, "generate") /\ MayFail(ok)
  /\ LET r == Logged(inv[i], "model", inv[i].rawContent, ok)
         write == IF StartsWith(r.content, "!track") THEN "issueCreate" ELSE "issueUpdate" IN
       IF ok
       THEN Put(i, [r EXCEPT !.summary = Some(summary),
                             !.title = AiTitle(summary),
                             !.body = AiBody(summary, channel.parentName),
                             !.labels = Labels(variant, channel.parentName),
                             !.pc = write])
       ELSE Put(i, Throw(r))
  /\ disturbances' = Count(ok)
  /\ UNCHANGED <<variant, channel, threadName, appliedTags, msgs, nextId, issues>>

IssueArgs(r) == [title |-> r.title, body |-> r.body, labels |-> r.labels]

\* variant of the create step that goes on to the confirmation although the
\* call failed
IssueCreateUnchecked(i, ok) ==
  /\ Running /\ At(i, "issueCreate") /\ MayFail(ok)
  /\ LET r == Logged(inv[i], "create", IssueArgs(inv[i]), ok) IN
       /\ issues' = IF ok THEN Append(issues, IssueArgs(inv[i])) ELSE issues
       /\ Put(i, [r EXCEPT !.issueNumber = Some(Len(issues) + 1), !.pc = "sendMarker"])
  /\ disturbances' = Count(ok)
  /\ UNCHANGED <<variant, channel, threadName, appliedTags, msgs, nextId>>

\* const issue = await octokit.rest.issues.create({ owner, repo, title, body, labels })
IssueCreate(i, ok) ==
  /\ Running /\ At(i, "issueCreate") /\ MayFail(ok)
  /\ LET r == Logged(inv[i], "create", IssueArgs(inv[i]), ok) IN
       IF ok
       THEN /\ issues' = Append(issues, IssueArgs(inv[i]))
            /\ Put(i, [r EXCEPT !.issueNumber = Some(Len(issues) + 1), !.pc = "sendMarker"])
       ELSE /\ Put(i, Throw(r))
            /\ UNCHANGED issues
  /\ disturbances' = Count(ok)
  /\ UNCHANGED <<variant, channel, threadName, appliedTags, msgs, nextId>>

\* await thread.send(`Tracked in ${issue.data.html_url}`)
SendMarker(i, ok) ==
  /\ Running /\ At(i, "sendMarker") /\ MayFail(ok)
  /\ LET text == "Tracked in " \o HtmlUrl(inv[i].issueNumber[1])
         r == Logged(inv[i], "send", text, ok) IN
       IF ok
       THEN /\ msgs' = Append(msgs, Message(nextId, BotUserId, text, 0))
            /\ nextId' = nextId + 1
            /\ Put(i, [r EXCEPT !.markerId = nextId, !.pc = "deleteCommand"])
       ELSE /\ Put(i, Throw(r))
            /\ UNCHANGED <<msgs, nextId>>
  /\ disturbances' = Count(ok)
  /\ UNCHANGED <<variant, channel, threadName, appliedTags, issues>>

\* await message.delete(); then trackedTag is looked up and trackedTag!.id
\* is read, which throws a TypeError when the forum has no such tag
DeleteCommand(i, ok) ==
  /\ Running /\ At(i, "deleteCommand") /\ MayFail(ok)
  /\ LET done == ok /\ MessageExists(msgs, inv[i].msgId)
         r == Logged(inv[i], "delete", "command", done) IN
       IF done
       THEN /\ msgs' = RemoveMessage(msgs, inv[i].msgId)
            /\ IF FindTrackedTag(channel.availableTags) = None
               THEN Put(i, Throw(r))
               ELSE Put(i, [r EXCEPT !.pc = "setAppliedTags"])
       ELSE /\ Put(i, Throw(r))
            /\ UNCHANGED msgs
  /\ disturbances' = Count(ok)
  /\ UNCHANGED <<variant, channel, threadName, appliedTags, nextId, issues>>

\* variant of the tag step that adds the tag to the ones applied
SetAppliedTagsAdding(i, ok) ==
  /\ Running /\ At(i, "setAppliedTags") /\ MayFail(ok)
  /\ LET tag == FindTrackedTag(channel.availableTags)[1]
         r == Logged(inv[i], "setAppliedTags", tag.id, ok) IN
       IF ok
       THEN /\ appliedTags' = appliedTags \cup {tag.id}
            /\ Put(i, [r EXCEPT !.pc = "done"])
       ELSE /\ Put(i, Throw(r))
            /\ UNCHANGED appliedTags
  /\ disturbances' = Count(ok)
  /\ UNCHANGED <<variant, channel, threadName, msgs, nextId, issues>>

\* await thread.setAppliedTags([trackedTag!.id])
SetAppliedTags(i, ok) ==
  /\ Running /\ At(i, "setAppliedTags") /\ MayFail(ok)
  /\ LET tag == FindTrackedTag(channel.availableTags)[1]
         r == Logged(inv[i], "setAppliedTags", tag.id, ok) IN
       IF ok
       THEN /\ appliedTags' = {tag.id}
            /\ Put(i, [r EXCEPT !.pc = "done"])
       ELSE /\ Put(i, Throw(r))
            /\ UNCHANGED appliedTags
  /\ disturbances' = Count(ok)
  /\ UNCHANGED <<variant, channel, threadName, msgs, nextId, issues>>

----------------------------------------------------------------------------
(* processUpdate                                                           *)

\* the fetch and the marker scan; the AI variant goes on to issues.get
UpdateFetch(i, ok) ==
  /\ Running /\ At(i, "updateFetch") /\ MayFail(ok)
  /\ LET fetched == Fetch(msgs)
         found == ScanTrackedNumber(fetched)
         r == [Logged(inv[i], "fetch", "update", ok) EXCEPT
                 !.fetchNext = nextId, !.oldest = fetched[Len(fetched)].id,
                 !.trackedNumber = found] IN
       IF ok
       THEN IF NotTracked(found)
            THEN Put(i, EnterNotice(r, NoTrackedText))
            ELSE Put(i, [r EXCEPT !.pc = IF variant = "plain" THEN "updateReact"
                                         ELSE "issueGet"])
       ELSE Put(i, Throw(Logged(inv[i], "fetch", "update", ok)))
  /\ disturbances' = Count(ok)
  /\ UNCHANGED <<variant, channel, threadName, appliedTags, msgs, nextId, issues>>

\* const existingIssue = await octokit.rest.issues.get(...): fails for an
\* issue number the repository does not have
IssueGet(i, ok) ==
  /\ Running /\ At(i, "issueGet") /\ MayFail(ok)
  /\ LET n == inv[i].trackedNumber[1]
         done == ok /\ n \in 1..Len(issues)
         r == Logged(inv[i], "get", n, done) IN
       IF done
       THEN Put(i, [r EXCEPT !.existing = Some(issues[n]), !.pc = "updateReact"])
       ELSE Put(i, Throw(r))
  /\ disturbances' = Count(ok)
  /\ UNCHANGED <<variant, channel, threadName, appliedTags, msgs, nextId, issues>>

\* await message.react(...) inside processUpdate
UpdateReact(i, ok) ==
  /\ Running /\ At(i, "updateReact") /\ MayReject(ok, Brain(variant))
  /\ LET done == ok /\ MessageExists(msgs, inv[i].msgId)
         r == Logged(inv[i], "react", Brain(variant), done) IN
       IF done
       THEN Put(i, [r EXCEPT !.pc = "summarize"])
       ELSE Put(i, Throw(r))
  /\ disturbances' = CountReact(ok, Brain(variant))
  /\ UNCHANGED <<variant, channel, threadName, appliedTags, msgs, nextId, issues>>

\* await octokit.rest.issues.update({ ..., issue_number: trackedNumber, ... })
IssueUpdate(i, ok) ==
  /\ Running /\ At(i, "issueUpdate") /\ MayFail(ok)
  /\ LET n == inv[i].trackedNumber[1]
         done == ok /\ n \in 1..Len(issues)
         r == Logged(inv[i], "update", [number |-> n, title |-> inv[i].title, body |-> inv[i].body, labels |-> inv[i].labels], done) IN
       IF done
       THEN /\ issues' = [issues EXCEPT ![n] = IssueArgs(inv[i])]
            /\ Put(i, EnterNotice(r, UpdatedText))
       ELSE /\ Put(i, Throw(r))
            /\ UNCHANGED issues
  /\ disturbances' = Count(ok)
  /\ UNCHANGED <<variant, channel, threadName, appliedTags, msgs, nextId>>

----------------------------------------------------------------------------
(* replaceWithNotice                                                       *)

\* const notice = await thread.send(reply)
NoticeSend(i, ok) ==
  /\ Running /\ At(i, "noticeSend") /\ MayFail(ok)
  /\ LET r == Logged(inv[i], "send", inv[i].noticeText, ok) IN
       IF ok
       THEN /\ msgs' = Append(msgs, Message(nextId, BotUserId, inv[i].noticeText, 0))
            /\ nextId' = nextId + 1
            /\ Put(i, [r EXCEPT !.notice = Some(nextId), !.pc = "noticeDeleteCommand"])
       ELSE /\ Put(i, Throw(r))
            /\ UNCHANGED <<msgs, nextId>>
  /\ disturbances' = Count(ok)
  /\ UNCHANGED <<variant, channel, threadName, appliedTags, issues>>

\* await message.delete(): fails when the message is already gone
NoticeDeleteCommand(i, ok) ==
  /\ Running /\ At(i, "noticeDeleteCommand") /\ MayFail(ok)
  /\ LET done == ok /\ MessageExists(msgs, inv[i].msgId)
         r == Logged(inv[i], "delete", "command", done) IN
       IF done
       THEN /\ msgs' = RemoveMessage(msgs, inv[i].msgId)
            /\ Put(i, [r EXCEPT !.pc = "noticeWait"])
       ELSE /\ Put(i, Throw(r))
            /\ UNCHANGED msgs
  /\ disturbances' = Count(ok)
  /\ UNCHANGED <<variant, channel, threadName, appliedTags, nextId, issues>>

\* await new Promise(resolve => setTimeout(resolve, 10000 / 60000))
NoticeWait(i) ==
  /\ Running /\ At(i, "noticeWait")
  /\ Put(i, [Logged(inv[i], "setTimeout", NoticeDelay(variant), TRUE) EXCEPT !.pc = "noticeDelete"])
  /\ UNCHANGED <<variant, channel, threadName, appliedTags, msgs, nextId, issues, disturbances>>

\* await notice.delete(), then replaceWithNotice and the handler return
NoticeDelete(i, ok) ==
  /\ Running /\ At(i, "noticeDelete") /\ MayFail(ok)
  /\ LET done == ok /\ MessageExists(msgs, inv[i].notice[1])
         r == Logged(inv[i], "delete", "notice", done) IN
       IF done
       THEN /\ msgs' = RemoveMessage(msgs, inv[i].notice[1])
            /\ Put(i, [r EXCEPT !.pc = "done"])
       ELSE /\ Put(i, Throw(r))
            /\ UNCHANGED msgs
  /\ disturbances' = Count(ok)
  /\ UNCHANGED <<variant, channel, threadName, appliedTags, nextId, issues>>

----------------------------------------------------------------------------
Invocations == 1..(MaxInvocations + MaxDisturbances)

Step(i) ==
  \/ \E ok \in BOOLEAN : RejectSend(i, ok)
  \/ \E ok \in BOOLEAN : ThreadEdit(i, ok)
  \/ \E ok \in BOOLEAN : React(i, ok)
  \/ \E ok \in BOOLEAN : TrackFetch(i, ok)
  \/ \E ok \in BOOLEAN : Summarize(i, ok)
  \/ At(i, "generate") /\ \E ok \in BOOLEAN : \E s \in Summaries(channel.parentName) : Generate(i, ok, s)
  \/ \E ok \in BOOLEAN : IssueCreate(i, ok)
  \/ \E ok \in BOOLEAN : SendMarker(i, ok)
  \/ \E ok \in BOOLEAN : DeleteCommand(i, ok)
  \/ \E ok \in BOOLEAN : SetAppliedTags(i, ok)
  \/ \E ok \in BOOLEAN : UpdateFetch(i, ok)
  \/ \E ok \in BOOLEAN : IssueGet(i, ok)
  \/ \E ok \in BOOLEAN : UpdateReact(i, ok)
  \/ \E ok \in BOOLEAN : IssueUpdate(i, ok)
  \/ \E ok \in BOOLEAN : NoticeSend(i, ok)
  \/ \E ok \in BOOLEAN : NoticeDeleteCommand(i, ok)
  \/ NoticeWait(i)
  \/ \E ok \in BOOLEAN : NoticeDelete(i, ok)

Next ==
  \/ \E e \in EventInputs : MessageCreate(e[1], e[2])
  \/ \E n \in BurstSizes : ChatBurst(n)
  \/ \E i \in Invocations : Step(i)

Spec == Init /\ [][Next]_vars

\* the steps of replaceWithNotice after the notice is posted
NoticeStep(i) ==
  \/ \E ok \in BOOLEAN : NoticeDeleteCommand(i, ok)
  \/ NoticeWait(i)
  \/ \E ok \in BOOLEAN : NoticeDelete(i, ok)

\* while the process runs, a handler suspended at an await of
\* replaceWithNotice is resumed when its call settles or its timer fires
FairSpec == Spec /\ \A i \in Invocations : WF_vars(NoticeStep(i))

----------------------------------------------------------------------------
(* Reading the handlers' call logs                                         *)

Calls(i) == inv[i].calls

HasCall(i, op) == \E k \in 1..Len(Calls(i)) : Calls(i)[k].op = op

Sent(i, text) ==
  \E k \in 1..Len(Calls(i)) : Calls(i)[k].op = "send" /\ Calls(i)[k].arg = text

SentOk(i, text) ==
  \E k \in 1..Len(Calls(i)) :
    Calls(i)[k].op = "send" /\ Calls(i)[k].arg = text /\ Calls(i)[k].ok

AllOk(i) == \A k \in 1..Len(Calls(i)) : Calls(i)[k].ok

\* the content begins with one of the two command words, letter by letter
BeginsWithCommand(c) ==
  \E w \in {"!track", "!update"} :
    Len(c) >= Len(w) /\ \A k \in 1..Len(w) : CharAt(c, k) = CharAt(w, k)

IsTrack(i) == inv[i].pc # "ignored" /\ CharAt(inv[i].content, 2) = "t"
IsUpdate(i) == inv[i].pc # "ignored" /\ CharAt(inv[i].content, 2) = "u"

\* invocation i created an issue and posted its 'Tracked in' message
Tracked(i) == IsTrack(i) /\ inv[i].issueNumber # None /\ inv[i].markerId # 0

\* the calls invocation i made after the first k
CallsAfter(i, k) == SubSeq(Calls(i), k + 1, Len(Calls(i)))

IsPrefix(a, b) == Len(a) <= Len(b) /\ SubSeq(b, 1, Len(a)) = a

\* the four calls of a replaceWithNotice that runs to its end
NoticeCalls(text) ==
  << Entry("send", text, TRUE), Entry("delete", "command", TRUE),
     Entry("setTimeout", IF variant = "plain" THEN 10000 ELSE 60000, TRUE),
     Entry("delete", "notice", TRUE) >>

----------------------------------------------------------------------------
(* C1 (as amended): when a !track has created its issue and posted its     *)
(* 'Tracked in <url>' message, and a second !track arrives in the thread   *)
(* after the first has finished, and the first one's marker is among the   *)
(* messages that the second one's duplicate-check fetch returns (the 100   *)
(* most recent messages of the thread at the moment of that fetch), then   *)
(* the second makes no issue-tracker create call, posts no marker, and its *)
(* next call after the fetch is the post of 'Issue already exists for this *)
(* thread.'                                                                *)
C1_SecondTrackRejectedWithinWindow ==
  \A i \in DOMAIN inv : \A j \in DOMAIN inv :
    ( /\ Tracked(i) /\ IsTrack(j) /\ i \in inv[j].after
      /\ inv[j].fetchNext # 0
      /\ inv[i].markerId >= inv[j].oldest )
    => /\ ~HasCall(j, "create")
       /\ inv[j].issueNumber = None /\ inv[j].markerId = 0
       /\ \/ (inv[j].pc = "noticeSend" /\ inv[j].noticeText = AlreadyExistsText)
          \/ \E k \in 2..Len(Calls(j)) :
               /\ Calls(j)[k - 1].op = "fetch"
               /\ Calls(j)[k].op = "send" /\ Calls(j)[k].arg = AlreadyExistsText

\* a second !track, 98 chat messages after the first one's marker, has
\* posted the 'already exists' notice
C1_Witness ==
  \E i \in DOMAIN inv : \E j \in DOMAIN inv :
    /\ Tracked(i) /\ IsTrack(j) /\ i \in inv[j].after
    /\ inv[j].msgId - inv[i].markerId >= FetchLimit - 2
    /\ inv[i].markerId >= inv[j].oldest
    /\ SentOk(j, AlreadyExistsText)

\* C1 as stated: whatever is appended between the two commands, the second
\* !track creates no issue
C1_Original ==
  \A i \in DOMAIN inv : \A j \in DOMAIN inv :
    (Tracked(i) /\ IsTrack(j) /\ i \in inv[j].after) => ~HasCall(j, "create")

----------------------------------------------------------------------------
(* C2: two !track handlers of one thread can both pass the duplicate check *)
(* before either has posted its marker, and then both create an issue and  *)
(* both post a marker (C2_Witness is that state): a handler that has      *)
(* passed the check goes on to create whatever the other does.  And two    *)
(* markers arise only this way: of two invocations that both posted a      *)
(* marker, each one's duplicate-check fetch returned before the other's    *)
(* marker was posted, or after it had left the 100-message window.         *)
C2_DuplicatesOnlyByRace ==
  \A i \in DOMAIN inv : \A j \in DOMAIN inv :
    (i # j /\ Tracked(i) /\ Tracked(j))
    => \/ inv[j].markerId >= inv[i].fetchNext
       \/ inv[j].markerId < inv[i].oldest

\* two interleaved !track handlers have created two issues and posted two
\* markers, both still in the thread, each fetch having preceded both markers
C2_Witness ==
  \E i \in DOMAIN inv : \E j \in DOMAIN inv :
    /\ i # j /\ Tracked(i) /\ Tracked(j)
    /\ inv[i].issueNumber # inv[j].issueNumber
    /\ Len(issues) = 2
    /\ inv[i].fetchNext <= inv[j].markerId /\ inv[j].fetchNext <= inv[i].markerId
    /\ inv[i].fetchNext <= inv[i].markerId /\ inv[j].fetchNext <= inv[j].markerId
    /\ MessageExists(msgs, inv[i].markerId) /\ MessageExists(msgs, inv[j].markerId)
    /\ AllOk(i) /\ AllOk(j)

----------------------------------------------------------------------------
(* C3: an !update whose fetch found no tracking marker by the owner or the *)
(* bot never makes an issue-tracker create or update call; and as long as  *)
(* none of its remote calls fails it stays out of the error path and makes *)
(* exactly the calls of the 'No tracked issue found in this thread.'       *)
(* notice: post the notice, delete the command message, wait, delete the   *)
(* notice.                                                                 *)
C3_UpdateWithoutMarker ==
  \A i \in DOMAIN inv :
    (IsUpdate(i) /\ inv[i].fetchNext # 0 /\ inv[i].trackedNumber = None)
    => /\ ~HasCall(i, "create") /\ ~HasCall(i, "update") /\ ~HasCall(i, "get")
       /\ AllOk(i) =>
            /\ inv[i].phase = "try"
            /\ \E k \in 1..Len(Calls(i)) :
                 /\ Calls(i)[k] = Entry("fetch", "update", TRUE)
                 /\ IsPrefix(CallsAfter(i, k), NoticeCalls(NoTrackedText))
                 /\ inv[i].pc = "done" => CallsAfter(i, k) = NoticeCalls(NoTrackedText)
            /\ inv[i].pc \in {"noticeSend", "noticeDeleteCommand", "noticeWait",
                              "noticeDelete", "done"}

\* an !update has run to its end in a thread where another user wrote a
\* marker: the notice was posted, the command deleted, no issue touched
C3_Witness ==
  \E i \in DOMAIN inv :
    /\ IsUpdate(i) /\ inv[i].trackedNumber = None /\ inv[i].pc = "done"
    /\ SentOk(i, NoTrackedText)
    /\ ~MessageExists(msgs, inv[i].msgId)
    /\ \E k \in 1..Len(msgs) : msgs[k].author = "user" /\ TRACKED_IN_REGEX(msgs[k].content)

----------------------------------------------------------------------------
(* C4: every exception raised while create- or update-handling runs is     *)
(* caught once and ends in one 'Error processing request.' notice that is  *)
(* deleted again, with the command message deleted and no exception        *)
(* leaving the handler, also when the command message was already deleted  *)
(* (stated for the runs in which no remote call fails for an environmental *)
(* reason, so that the only exceptions are the ones the code causes).      *)
C4_Original ==
  \A i \in DOMAIN inv :
    (inv[i].phase = "catch" /\ disturbances = 0)
    => /\ inv[i].pc # "escaped"
       /\ inv[i].pc = "done" =>
            /\ ~MessageExists(msgs, inv[i].msgId)
            /\ ~MessageExists(msgs, inv[i].notice[1])

----------------------------------------------------------------------------
(* C5: a message that is not by the owner, or whose content does not begin *)
(* with !track or !update, causes no remote operation: the handler returns *)
(* at once, and no call (reply, reaction, rename, deletion, tag change,    *)
(* fetch, issue-tracker or model call) is ever made for it.                *)
C5_IgnoredMessagesDoNothing ==
  \A i \in DOMAIN inv :
    (inv[i].author # "owner" \/ ~BeginsWithCommand(inv[i].content))
    => /\ inv[i].pc = "ignored"
       /\ Calls(i) = <<>>
       /\ inv[i].phase = "pre"

\* the owner wrote '!trac', which shares its first letters with '!track',
\* the message is in the channel and nothing was done for it
C5_Witness ==
  \E i \in DOMAIN inv :
    /\ inv[i].author = "owner" /\ inv[i].content = "!trac"
    /\ inv[i].pc = "ignored"
    /\ MessageExists(msgs, inv[i].msgId)
    /\ threadName = "Crash on save" /\ issues = <<>>

----------------------------------------------------------------------------
(* C6: an owner command in a channel that is not a thread, or in a thread  *)
(* whose parent is not a forum, makes one call only, the plain reply 'This *)
(* command must be used inside a forum thread.', and then ends: it never   *)
(* enters the try block, adds no reaction, does not delete the command     *)
(* message, does not rename the thread, fetches nothing, changes no tag    *)
(* and makes no issue-tracker or model call.                               *)
C6_InvalidContextRepliesOnce ==
  \A i \in DOMAIN inv :
    ( /\ inv[i].author = "owner" /\ BeginsWithCommand(inv[i].content)
      /\ (~channel.isThread \/ channel.parentType # 15) )
    => /\ inv[i].pc \in {"rejectSend", "done", "escaped"}
       /\ inv[i].phase = "pre"
       /\ inv[i].pc = "rejectSend" => Calls(i) = <<>>
       /\ inv[i].pc = "done" => Calls(i) = <<Entry("send", NotForumText, TRUE)>>
       /\ inv[i].pc = "escaped" => Calls(i) = <<Entry("send", NotForumText, FALSE)>>
       /\ MessageExists(msgs, inv[i].msgId)
       /\ threadName = "Crash on save" /\ issues = <<>> /\ appliedTags = {}

\* '!track Crash v2' in a thread of a text channel: the reply is in the
\* thread, the handler has ended, the thread kept its name
C6_Witness ==
  \E i \in DOMAIN inv :
    /\ channel.isThread /\ channel.parentType # 15
    /\ inv[i].content = "!track Crash v2" /\ inv[i].pc = "done"
    /\ \E k \in 1..Len(msgs) : msgs[k].author = "bot" /\ msgs[k].content = NotForumText
    /\ MessageExists(msgs, inv[i].msgId)
    /\ threadName # "Crash v2"

----------------------------------------------------------------------------
(* C7: the label list of every issue-tracker create or update call holds   *)
(* 'discord' and exactly one of 'enhancement' and 'bug': 'enhancement'     *)
(* exactly when the parent channel's name contains 'feature' in any mix of *)
(* upper and lower case, whatever the command, the thread's content and    *)
(* the model's answer are.                                                 *)
NameHasFeature(name) ==
  \E p \in 1..Len(name) :
    /\ p + 6 <= Len(name)
    /\ \A k \in 1..7 : CharAt(name, p + k - 1) \in {CharAt("feature", k), CharAt("FEATURE", k)}

Occurrences(seq, x) == Cardinality({k \in 1..Len(seq) : seq[k] = x})

C7_LabelsFollowChannelName ==
  \A i \in DOMAIN inv : \A k \in 1..Len(Calls(i)) :
    Calls(i)[k].op \in {"create", "update"}
    => LET labels == Calls(i)[k].arg.labels IN
         /\ Occurrences(labels, "discord") = 1
         /\ Occurrences(labels, "enhancement") + Occurrences(labels, "bug") = 1
         /\ Occurrences(labels, "enhancement") = 1 <=> NameHasFeature(channel.parentName)

\* in the forum 'New-FEATURES' an issue was created and then updated, both
\* calls labelled 'enhancement'
C7_Witness ==
  /\ channel.parentName = "New-FEATURES"
  /\ \E i \in DOMAIN inv : \E k \in 1..Len(Calls(i)) :
       /\ Calls(i)[k].op = "create" /\ Calls(i)[k].ok
       /\ Occurrences(Calls(i)[k].arg.labels, "enhancement") = 1
  /\ \E j \in DOMAIN inv : \E k \in 1..Len(Calls(j)) :
       /\ Calls(j)[k].op = "update" /\ Calls(j)[k].ok
       /\ Occurrences(Calls(j)[k].arg.labels, "enhancement") = 1

----------------------------------------------------------------------------
(* C8 (as amended): in every invocation that passes authorization and      *)
(* context validation no thread-message fetch, language-model call or      *)
(* issue-tracker call is made before the reaction call; the thread edit    *)
(* is the exception: the non-AI variant, given a title, renames the thread *)
(* as its first call, before the reaction, and the AI variant never        *)
(* renames.                                                                *)
SlowWork == {"fetch", "model", "create", "update", "get"}

\* some text other than white space follows the first blank of the content
GivesTitle(c) ==
  \E q \in 1..Len(c) : \E p \in (q + 1)..Len(c) :
    CharAt(c, q) = " " /\ CharAt(c, p) \notin {" ", "\n", "\t", "\r", "\f"}

ReactBefore(i, k) == \E m \in 1..(k - 1) : Calls(i)[m].op = "react"

C8_ReactionBeforeFetchModelTracker ==
  \A i \in DOMAIN inv : \A k \in 1..Len(Calls(i)) :
    /\ Calls(i)[k].op \in SlowWork => ReactBefore(i, k)
    /\ Calls(i)[k].op = "edit" => (k = 1 /\ variant = "plain")
    /\ (Calls(i)[k].op = "react" /\ ~ReactBefore(i, k) /\ variant = "plain"
          /\ GivesTitle(inv[i].content))
       => (k = 2 /\ Calls(i)[1].op = "edit")

\* the non-AI variant was given a title: its calls are the edit, the
\* reaction and then the fetch
C8_Witness ==
  \E i \in DOMAIN inv :
    /\ variant = "plain" /\ Len(Calls(i)) >= 3
    /\ Calls(i)[1] = Entry("edit", "Crash v2", TRUE)
    /\ Calls(i)[2] = Entry("react", Brain(variant), TRUE)
    /\ Calls(i)[3].op = "fetch"
    /\ threadName = "Crash v2"

\* C8 as stated: no thread edit, fetch, model call or issue-tracker call is
\* made before the reaction call
C8_Original ==
  \A i \in DOMAIN inv : \A k \in 1..Len(Calls(i)) :
    Calls(i)[k].op \in SlowWork \cup {"edit"} => ReactBefore(i, k)

----------------------------------------------------------------------------
(* C9: a !track whose duplicate check passed and whose issue was created,  *)
(* and none of whose remote calls is failed by the environment, posts the  *)
(* confirmation with the issue's URL, deletes the command message, applies *)
(* the 'tracked' tag when the forum defines one, and ends on the success   *)
(* path also when the forum defines none: no 'Error processing request.'   *)
(* notice, no exception.                                                   *)
ForumHasTrackedTag ==
  \E k \in 1..Len(channel.availableTags) :
    channel.availableTags[k].name \in {"tracked", "Tracked", "TRACKED"}

C9_Original ==
  \A i \in DOMAIN inv :
    (IsTrack(i) /\ inv[i].issueNumber # None /\ disturbances = 0)
    => /\ inv[i].phase = "try" /\ inv[i].pc # "escaped"
       /\ ~Sent(i, ErrorText) /\ inv[i].noticeText # ErrorText
       /\ inv[i].pc = "done" =>
            /\ SentOk(i, "Tracked in https://github.com/o/r/issues/"
                            \o ToString(inv[i].issueNumber[1]))
            /\ ~MessageExists(msgs, inv[i].msgId)
            /\ ForumHasTrackedTag => appliedTags = {"t2"}

----------------------------------------------------------------------------
(* C10: every notice the bot posts through replaceWithNotice is followed,  *)
(* as long as no call fails, by exactly: the deletion of the command       *)
(* message, a wait of 10000 ms in the non-AI variant and 60000 ms in the   *)
(* AI variant, the deletion of the notice; and when the process keeps      *)
(* running, a posted notice is eventually deleted, by these calls in this  *)
(* order, unless one of the calls after its posting fails.  The process    *)
(* stops running when a rejection leaves a handler, this one's or another  *)
(* one's; the notice of a handler suspended at that moment stays.          *)
NoticeTexts == {AlreadyExistsText, NoTrackedText, UpdatedText, ErrorText}

\* call k of invocation i posted a notice
PostsNotice(i, k) ==
  /\ k \in 1..Len(Calls(i))
  /\ Calls(i)[k].op = "send" /\ Calls(i)[k].arg \in NoticeTexts /\ Calls(i)[k].ok

\* the calls from the posting on up to the first failure are the notice's
\* calls, in order
FollowsNoticeOrder(i, k) ==
  LET rest == CallsAfter(i, k - 1)
      expected == NoticeCalls(Calls(i)[k].arg) IN
    \A m \in 1..Len(rest) :
      (\A q \in 1..(m - 1) : rest[q].ok)
      => /\ m <= Len(expected)
         /\ rest[m].op = expected[m].op /\ rest[m].arg = expected[m].arg

C10_Order ==
  \A i \in DOMAIN inv : \A k \in 1..Len(Calls(i)) :
    PostsNotice(i, k) => FollowsNoticeOrder(i, k)

\* invocation i has posted a notice and not yet deleted it
NoticePending(i) ==
  IF i \in DOMAIN inv
  THEN inv[i].pc \in {"noticeDeleteCommand", "noticeWait", "noticeDelete"}
  ELSE FALSE

\* the notice of invocation i is deleted, by the calls of the notice in
\* their order, or a call after its posting failed
NoticeSettled(i) ==
  IF i \in DOMAIN inv
  THEN \/ /\ inv[i].pc = "done" /\ inv[i].notice # None
          /\ ~MessageExists(msgs, inv[i].notice[1])
          /\ Len(Calls(i)) >= 4
          /\ CallsAfter(i, Len(Calls(i)) - 4) = NoticeCalls(inv[i].noticeText)
       \/ /\ inv[i].pc \in {"escaped", "noticeSend"}
          /\ ~Calls(i)[Len(Calls(i))].ok
  ELSE FALSE

C10_NoticesAreDeleted ==
  /\ []C10_Order
  /\ \A i \in Invocations : NoticePending(i) ~> (NoticeSettled(i) \/ ~Running)

\* in the AI variant an issue-tracker call failed, the 'Error processing
\* request.' notice was posted, the command deleted, 60000 ms waited and
\* the notice deleted
C10_Witness ==
  \E i \in DOMAIN inv :
    /\ variant = "ai" /\ inv[i].pc = "done" /\ inv[i].phase = "catch"
    /\ Len(Calls(i)) >= 4
    /\ CallsAfter(i, Len(Calls(i)) - 4) =
         << Entry("send", ErrorText, TRUE), Entry("delete", "command", TRUE),
            Entry("setTimeout", 60000, TRUE), Entry("delete", "notice", TRUE) >>
    /\ ~MessageExists(msgs, inv[i].notice[1])
    /\ ~MessageExists(msgs, inv[i].msgId)

----------------------------------------------------------------------------
(* The marker scan of processUpdate on its own: an !update has been        *)
(* acknowledged in a thread whose earlier messages are drawn from a table  *)
(* of contents with known issue numbers, and its fetch and scan run.       *)

MaxHistory == 3   \* messages in the thread before the !update

\* message contents and the issue number each one references (None: no
\* tracking marker)
MarkerSamples ==
  { [content |-> "Tracked in https://github.com/o/r/issues/42", number |-> Some(42)],
    [content |-> "ok: Tracked in https://github.com/org/repo/issues/1234567.", number |-> Some(1234567)],
    [content |-> "Tracked in https://github.com/o/r/issues/0", number |-> Some(0)],
    [content |-> "tracked in https://github.com/o/r/issues/5", number |-> None],
    [content |-> "Tracked in https://github.com/o/r/pull/6", number |-> None],
    [content |-> "Tracked in https://github.com/o/r\r/issues/3", number |-> None],
    [content |-> "Tracked in https://github.com/o/r/issues/3\r/issues/4", number |-> Some(3)],
    [content |-> "It crashes", number |-> None] }

SampleAuthors == {OWNER_DISCORD_ID, BotUserId, "user"}

RECURSIVE Histories(_)
Histories(n) ==
  IF n = 0 THEN {<<>>}
  ELSE LET shorter == Histories(n - 1) IN
         shorter \cup
         { Append(h, Message(Len(h) + 1, a, m.content, 0)) :
             h \in {x \in shorter : Len(x) = n - 1}, a \in SampleAuthors, m \in MarkerSamples }

\* the handler of an '!update' after line 167: reacted, inside the try block,
\* about to fetch
UpdateAcknowledged(id) ==
  [Logged(NewInvocation(id, OWNER_DISCORD_ID, "!update", "updateFetch", {}), "react", Brain(variant), TRUE)
     EXCEPT !.phase = "try"]

ScanInit ==
  /\ variant \in VariantNames
  /\ channel = Forum("bug-reports", <<SolvedTag, TrackedTag>>)
  /\ threadName = "Crash on save"
  /\ appliedTags = {SolvedTag.id}
  /\ \E h \in Histories(MaxHistory) :
       /\ msgs = Append(h, Message(Len(h) + 1, OWNER_DISCORD_ID, "!update", 0))
       /\ nextId = Len(h) + 2
       /\ inv = <<UpdateAcknowledged(Len(h) + 1)>>
  /\ issues = <<>>
  /\ disturbances = 0

ScanNext == \E ok \in BOOLEAN : UpdateFetch(1, ok)

ScanSpec == ScanInit /\ [][ScanNext]_vars

\* the number the table gives for a content
SampleNumber(content) == (CHOOSE m \in MarkerSamples : m.content = content).number

\* the newest-first positions of the thread's messages by the owner or the
\* bot whose content the table lists with a number
MarkedPositions ==
  { k \in 1..Len(msgs) :
      /\ msgs[k].author \in {"owner", "bot"}
      /\ \E m \in MarkerSamples : m.content = msgs[k].content /\ m.number # None }

----------------------------------------------------------------------------
(* C11: the scan of !update yields the issue number of the first message   *)
(* in fetch order (newest first) that is by the owner or the bot and holds *)
(* a tracking marker, whatever that number is, and the update goes on with *)
(* it; markers by other authors are ignored; with no such message the      *)
(* result is none and the 'No tracked issue found' notice is entered.      *)
C11_Original ==
  (inv # <<>> /\ inv[1].fetchNext # 0 /\ inv[1].calls[Len(inv[1].calls)].op = "fetch")
  => IF MarkedPositions = {}
     THEN inv[1].pc = "noticeSend" /\ inv[1].noticeText = NoTrackedText
     ELSE LET newest == CHOOSE k \in MarkedPositions : \A q \in MarkedPositions : q <= k IN
            /\ inv[1].trackedNumber = SampleNumber(msgs[newest].content)
            /\ inv[1].pc \in {"updateReact", "issueGet"}

----------------------------------------------------------------------------
(* C12 (as amended): an !update that arrives after a !track has created    *)
(* issue N and posted its marker, whose fetch returns that marker (it is   *)
(* among the 100 most recent messages of the thread at the moment of the   *)
(* fetch) and finds no newer message by the owner or the bot that holds a  *)
(* tracking marker, reads N, makes no create call and no update call for   *)
(* another number, and when none of its calls fails it makes exactly one   *)
(* update call, for N, and ends with the calls of the 'Issue updated.'     *)
(* notice.                                                                 *)

\* update calls of invocation j
UpdateCalls(j) == {k \in 1..Len(Calls(j)) : Calls(j)[k].op = "update"}

\* when the fetch of invocation j returned, no message by the owner or the
\* bot newer than the marker of invocation i held the words 'Tracked in'
NewestMarkerIs(i, j) ==
  \A k \in 1..Len(msgs) :
    ( /\ msgs[k].id > inv[i].markerId /\ msgs[k].id < inv[j].fetchNext
      /\ msgs[k].author \in {"owner", "bot"} )
    => ~Includes(msgs[k].content, "Tracked in")

\* invocation j is an !update that arrived after !track i had finished, the
\* marker of i is in the thread and the fetch of j has returned
UpdateAfterTrack(i, j) ==
  /\ Tracked(i) /\ IsUpdate(j) /\ i \in inv[j].after
  /\ MessageExists(msgs, inv[i].markerId)
  /\ inv[j].fetchNext # 0

UpdatesIssue(i, j) ==
  /\ inv[j].trackedNumber = inv[i].issueNumber
  /\ ~HasCall(j, "create")
  /\ ~Sent(j, NoTrackedText) /\ inv[j].noticeText # NoTrackedText
  /\ \A k \in UpdateCalls(j) : Calls(j)[k].arg.number = inv[i].issueNumber[1]
  /\ Cardinality(UpdateCalls(j)) <= 1
  /\ (AllOk(j) /\ inv[j].pc = "done") =>
       /\ Cardinality(UpdateCalls(j)) = 1
       /\ Len(Calls(j)) >= 5
       /\ Calls(j)[Len(Calls(j)) - 4].op = "update"
       /\ CallsAfter(j, Len(Calls(j)) - 4) = NoticeCalls(UpdatedText)

C12_UpdateWithinWindow ==
  \A i \in DOMAIN inv : \A j \in DOMAIN inv :
    (UpdateAfterTrack(i, j) /\ inv[i].markerId >= inv[j].oldest /\ NewestMarkerIs(i, j))
    => UpdatesIssue(i, j)

\* 98 chat messages after the marker an !update has updated the issue of
\* the marker and its 'Issue updated.' notice is gone again
C12_Witness ==
  \E i \in DOMAIN inv : \E j \in DOMAIN inv :
    /\ UpdateAfterTrack(i, j) /\ NewestMarkerIs(i, j)
    /\ inv[j].msgId - inv[i].markerId >= FetchLimit - 2
    /\ inv[i].markerId >= inv[j].oldest
    /\ inv[j].pc = "done" /\ AllOk(j)
    /\ SentOk(j, UpdatedText)
    /\ \E k \in UpdateCalls(j) : Calls(j)[k].arg.number = inv[i].issueNumber[1] /\ Calls(j)[k].ok

\* C12 as stated: the thread's history holds the bot's marker for issue N,
\* however many messages were added since
C12_Original ==
  \A i \in DOMAIN inv : \A j \in DOMAIN inv :
    UpdateAfterTrack(i, j) => UpdatesIssue(i, j)

----------------------------------------------------------------------------
(* C13 (as amended): nothing is rolled back after a successful issue       *)
(* creation.  The created issue stays in the tracker and the invocation    *)
(* makes no further issue-tracker call.  When the confirmation post fails  *)
(* the thread holds no tracking marker for the issue; when the tag         *)
(* application fails the marker, posted before it, stays in the thread.    *)

\* invocation i made the call op and it failed
FailedCall(i, op) == \E k \in 1..Len(Calls(i)) : Calls(i)[k].op = op /\ ~Calls(i)[k].ok

\* the text of the tracking marker of issue number n
MarkerTextOf(n) == "Tracked in https://github.com/o/r/issues/" \o ToString(n)

\* the thread holds a message by the bot with the marker of issue n
MarkerInThread(n) ==
  \E k \in 1..Len(msgs) : msgs[k].author = "bot" /\ msgs[k].content = MarkerTextOf(n)

\* invocation i is a !track whose issues.create returned
Created(i) == IsTrack(i) /\ inv[i].issueNumber # None

\* the confirmation post of i failed
FailedPost(i) ==
  \E k \in 1..Len(Calls(i)) :
    Calls(i)[k] = Entry("send", MarkerTextOf(inv[i].issueNumber[1]), FALSE)

\* the calls of i after the create are none to the issue tracker
NoTrackerCallAfterCreate(i) ==
  \A k \in 1..Len(Calls(i)) : \A m \in (k + 1)..Len(Calls(i)) :
    Calls(i)[k].op = "create" => Calls(i)[m].op \notin {"create", "update", "get"}

C13_NoRollback ==
  \A i \in DOMAIN inv :
    Created(i)
    => /\ inv[i].issueNumber[1] \in 1..Len(issues)
       /\ NoTrackerCallAfterCreate(i)
       /\ FailedPost(i)
          => (~MarkerInThread(inv[i].issueNumber[1]) /\ inv[i].phase = "catch")
       /\ FailedCall(i, "setAppliedTags")
          => (MarkerInThread(inv[i].issueNumber[1]) /\ inv[i].phase = "catch")

\* the tag application of a !track failed: the issue is in the tracker, the
\* marker is in the thread, the command message is gone, the tags are as
\* they were
C13_Witness ==
  \E i \in DOMAIN inv :
    /\ Created(i) /\ FailedCall(i, "setAppliedTags")
    /\ Len(issues) = 1 /\ MarkerInThread(1)
    /\ ~MessageExists(msgs, inv[i].msgId)
    /\ appliedTags = {"t1"}
    /\ Sent(i, ErrorText)

\* C13 as stated: after a failed confirmation post, and after a failed tag
\* application, the thread holds no tracking marker for the created issue
C13_Original ==
  \A i \in DOMAIN inv :
    (Created(i) /\ (FailedPost(i) \/ FailedCall(i, "setAppliedTags")))
    => /\ inv[i].issueNumber[1] \in 1..Len(issues)
       /\ ~MarkerInThread(inv[i].issueNumber[1])

----------------------------------------------------------------------------
(* summarizeThread on its own: a command arrives in a forum thread whose   *)
(* earlier messages are an arrangement of distinct messages of every kind  *)
(* the filters tell apart, and the handler runs up to the summary.         *)

MaxTranscript == 3   \* messages in the thread before the command

MessagePool ==
  { [author |-> "user", content |-> "It crashes", type |-> 0],
    [author |-> "user", content |-> "Tracked in https://github.com/o/r/issues/9", type |-> 0],
    [author |-> "user", content |-> "renamed", type |-> ChannelNameChange],
    [author |-> OWNER_DISCORD_ID, content |-> "Noted", type |-> 0],
    [author |-> OWNER_DISCORD_ID, content |-> "!wow", type |-> 0],
    [author |-> BotUserId, content |-> "Issue updated.", type |-> 0],
    [author |-> BotUserId, content |-> "Tracked in https://github.com/o/r/issues/1", type |-> 0] }

RECURSIVE Arrangements(_)
Arrangements(n) ==
  IF n = 0 THEN {<<>>}
  ELSE LET shorter == Arrangements(n - 1) IN
         shorter \cup
         { Append(h, Message(Len(h) + 1, m.author, m.content, m.type)) :
             h \in {x \in shorter : Len(x) = n - 1},
             m \in MessagePool }

Distinct(h) == \A a \in 1..Len(h) : \A b \in 1..Len(h) : a # b => h[a].content # h[b].content

\* the issue an earlier !track created, when the bot's marker is in the thread
EarlierIssue == [title |-> "Crash on save", body |-> "Thread " \o ThreadUrl, labels |-> <<"discord", "bug">>]

TranscriptInit ==
  /\ variant \in VariantNames
  /\ channel = Forum("bug-reports", <<SolvedTag, TrackedTag>>)
  /\ threadName = "Crash on save"
  /\ \E h \in {x \in Arrangements(MaxTranscript) : Distinct(x)} : \E c \in {"!track", "!update"} :
       /\ msgs = Append(h, Message(Len(h) + 1, OWNER_DISCORD_ID, c, 0))
       /\ nextId = Len(h) + 2
       /\ inv = <<NewInvocation(Len(h) + 1, OWNER_DISCORD_ID, c,
                                FirstStep(variant, channel, OWNER_DISCORD_ID, c), {})>>
       /\ issues = IF HasMarker(h) THEN <<EarlierIssue>> ELSE <<>>
       /\ appliedTags = IF HasMarker(h) THEN {TrackedTag.id} ELSE {SolvedTag.id}
  /\ disturbances = 0

TranscriptNext ==
  \/ \E ok \in BOOLEAN : React(1, ok)
  \/ \E ok \in BOOLEAN : TrackFetch(1, ok)
  \/ \E ok \in BOOLEAN : UpdateFetch(1, ok)
  \/ \E ok \in BOOLEAN : IssueGet(1, ok)
  \/ \E ok \in BOOLEAN : UpdateReact(1, ok)
  \/ \E ok \in BOOLEAN : Summarize(1, ok)

TranscriptSpec == TranscriptInit /\ [][TranscriptNext]_vars

----------------------------------------------------------------------------
(* C14 (as amended): for a thread of at most 100 messages the summary      *)
(* holds the included messages in ascending order of creation and leaves   *)
(* out exactly these: in the non-AI variant the messages by the bot, the   *)
(* system messages (type 4), the messages with a tracking marker and the   *)
(* owner's messages that begin with '!', commands or not; in the AI        *)
(* variant the messages by the bot and no others, so that markers by other *)
(* authors, system messages and the owner's commands are in its summary.   *)

\* invocation 1 has just received its summary
Summarized ==
  /\ inv # <<>> /\ Len(Calls(1)) > 0
  /\ Calls(1)[Len(Calls(1))] = Entry("fetch", "summarize", TRUE)

SummaryText == IF variant = "plain" THEN inv[1].body ELSE inv[1].rawContent

Positions(text, c) == {p \in 1..Len(text) : OccursAt(text, c, p)}

Appears(m) == Positions(SummaryText, m.content) # {}

HoldsMarker(m) == Positions(m.content, "Tracked in https://github.com/") # {}

\* what the code leaves out
LeftOut(m) ==
  IF variant = "plain"
  THEN \/ m.author = "bot"
       \/ m.type = 4
       \/ HoldsMarker(m)
       \/ (m.author = "owner" /\ CharAt(m.content, 1) = "!")
  ELSE m.author = "bot"

\* what the claim says is left out
LeftOutAsStated(m) ==
  \/ m.author = "bot"
  \/ HoldsMarker(m)
  \/ (variant = "plain" /\ m.author = "owner" /\ BeginsWithCommand(m.content))

InCreationOrder ==
  \A a \in 1..Len(msgs) : \A b \in 1..Len(msgs) :
    (Appears(msgs[a]) /\ Appears(msgs[b]) /\ msgs[a].createdTimestamp < msgs[b].createdTimestamp)
    => SetMin(Positions(SummaryText, msgs[a].content)) < SetMin(Positions(SummaryText, msgs[b].content))

C14_SummaryFilters ==
  (Summarized /\ Len(msgs) <= 100)
  => /\ \A k \in 1..Len(msgs) : Appears(msgs[k]) <=> ~LeftOut(msgs[k])
     /\ InCreationOrder

\* the non-AI summary of a thread with a user's message, the owner's remark
\* and a bot notice holds the first two, in that order, and not the third
C14_Witness ==
  /\ Summarized /\ variant = "plain" /\ Len(msgs) = 4
  /\ msgs[1].content = "It crashes" /\ msgs[2].content = "Issue updated." /\ msgs[3].content = "Noted"
  /\ Appears(msgs[1]) /\ ~Appears(msgs[2]) /\ Appears(msgs[3]) /\ ~Appears(msgs[4])
  /\ SetMin(Positions(SummaryText, "It crashes")) < SetMin(Positions(SummaryText, "Noted"))

\* C14 as stated
C14_Original ==
  (Summarized /\ Len(msgs) <= 100)
  => /\ \A k \in 1..Len(msgs) : Appears(msgs[k]) <=> ~LeftOutAsStated(msgs[k])
     /\ InCreationOrder

----------------------------------------------------------------------------
(* formatBugReport on its own: the AI variant handles a !track in a defect *)
(* forum and the language model answers with any summary of the schema,    *)
(* its three optional fields null, empty, blank or filled.                 *)

FieldValues == {NullValue, "", " ", "v"}

BugReports ==
  { [title |-> "Crash", description |-> d, replicationSteps |-> r,
     extensionVersion |-> e, browsersUsed |-> b] :
      d \in {"", "It crashes"}, r \in FieldValues, e \in FieldValues, b \in FieldValues }

FormatInit ==
  /\ variant = "ai"
  /\ channel = Forum("bug-reports", <<SolvedTag, TrackedTag>>)
  /\ threadName = "Crash on save"
  /\ appliedTags = {SolvedTag.id}
  /\ msgs = <<Message(1, "user", "It crashes", 0), Message(2, OWNER_DISCORD_ID, "!track", 0)>>
  /\ nextId = 3
  /\ issues = <<>>
  /\ inv = <<NewInvocation(2, OWNER_DISCORD_ID, "!track",
                           FirstStep(variant, channel, OWNER_DISCORD_ID, "!track"), {})>>
  /\ disturbances = 0

FormatNext ==
  \/ \E ok \in BOOLEAN : React(1, ok)
  \/ \E ok \in BOOLEAN : TrackFetch(1, ok)
  \/ \E ok \in BOOLEAN : Summarize(1, ok)
  \/ \E ok \in BOOLEAN : \E s \in BugReports : Generate(1, ok, s)

FormatSpec == FormatInit /\ [][FormatNext]_vars

----------------------------------------------------------------------------
(* C15: the body formatBugReport renders for a defect summary is the       *)
(* Description section, then 'How to replicate the issue', 'Extension      *)
(* version' and 'Browser(s) used' in this order, each of the three present *)
(* exactly when its field is neither null nor the empty string, the        *)
(* sections separated by a blank line.                                     *)
Filled(field) == field \notin {"<null>", ""}

Section(heading, field) ==
  IF Filled(field) THEN "\n\n### " \o heading \o "\n\n" \o field ELSE ""

ExpectedReport(summary) ==
  "### Description\n\n" \o summary.description
  \o Section("How to replicate the issue", summary.replicationSteps)
  \o Section("Extension version", summary.extensionVersion)
  \o Section("Browser(s) used", summary.browsersUsed)

C15_BugReportSections ==
  \A i \in DOMAIN inv :
    (inv[i].summary # None /\ "replicationSteps" \in DOMAIN inv[i].summary[1])
    => inv[i].body = ExpectedReport(inv[i].summary[1])
                       \o "\n\nTracked in https://discord.com/channels/1/2"

\* a summary with the steps empty, the version filled and the browsers null
\* was rendered as the Description and the Extension version sections only
C15_Witness ==
  \E i \in DOMAIN inv :
    /\ inv[i].summary # None
    /\ inv[i].summary[1] = [title |-> "Crash", description |-> "It crashes", replicationSteps |-> "",
                            extensionVersion |-> "v", browsersUsed |-> "<null>"]
    /\ inv[i].body = "### Description\n\nIt crashes\n\n### Extension version\n\nv"
                       \o "\n\nTracked in https://discord.com/channels/1/2"

----------------------------------------------------------------------------
(* C16 (as amended): in the non-AI variant a validated command followed by *)
(* title text, !track and !update alike, renames the thread to that text   *)
(* as its first call; without text it makes no rename.  The AI variant     *)
(* never renames.  The issue a non-AI !track creates, when no other        *)
(* command overlaps it, has the thread's name as its title: the text given *)
(* with it, or else the name the thread had when the command arrived.      *)

\* the title each command of the runs carries
GivenTitle(content) ==
  CASE content = "!track Crash v2" -> "Crash v2"
    [] content = "!update now\r\n" -> "now"
    [] OTHER -> ""

EditCalls(i) == {k \in 1..Len(Calls(i)) : Calls(i)[k].op = "edit"}

\* no other command was being handled while invocation i ran
Alone(i) ==
  \A j \in DOMAIN inv :
    (j # i /\ inv[j].pc # "ignored") => (j \in inv[i].after \/ i \in inv[j].after)

\* the invocations up to i whose rename succeeded
Renamers(i) == {j \in 1..i : \E k \in EditCalls(j) : Calls(j)[k].ok}

\* the thread's name once invocation i has passed its rename step
NameFor(i) ==
  IF Renamers(i) = {} THEN "Crash on save"
  ELSE GivenTitle(inv[SetMax(Renamers(i))].content)

RenamesAsCoded(i) ==
  /\ variant = "ai" => EditCalls(i) = {}
  /\ (variant = "plain" /\ GivenTitle(inv[i].content) = "") => EditCalls(i) = {}
  /\ (variant = "plain" /\ GivenTitle(inv[i].content) # "" /\ inv[i].pc \notin {"threadEdit", "rejectSend"}
        /\ channel.isThread /\ channel.parentType = 15)
     => (EditCalls(i) = {1} /\ Calls(i)[1].arg = GivenTitle(inv[i].content))

TitleIsThreadName(i) ==
  \A k \in 1..Len(Calls(i)) :
    (Calls(i)[k].op = "create" /\ variant = "plain" /\ Alone(i))
    => Calls(i)[k].arg.title = NameFor(i)

C16_RenameAndTitle ==
  \A i \in DOMAIN inv :
    inv[i].pc # "ignored" => (RenamesAsCoded(i) /\ TitleIsThreadName(i))

\* the non-AI '!track Crash v2' renamed the thread and created the issue
\* 'Crash v2'
C16_Witness ==
  \E i \in DOMAIN inv :
    /\ variant = "plain" /\ inv[i].content = "!track Crash v2" /\ Alone(i)
    /\ Len(Calls(i)) >= 1
    /\ Calls(i)[1] = Entry("edit", "Crash v2", TRUE)
    /\ threadName = "Crash v2"
    /\ Len(issues) = 1 /\ issues[1].title = "Crash v2"
    /\ \E k \in 1..Len(Calls(i)) : Calls(i)[k].op = "create" /\ Calls(i)[k].ok

\* C16 as stated: the rename is for !track only, an !update never renames
C16_Original ==
  \A i \in DOMAIN inv :
    inv[i].pc # "ignored"
    => /\ variant = "ai" => EditCalls(i) = {}
       /\ IsUpdate(i) => EditCalls(i) = {}
       /\ TitleIsThreadName(i)

----------------------------------------------------------------------------
(* C17: within one invocation the bot attempts to delete the triggering    *)
(* command message at most once, on every path (stated for the runs in     *)
(* which the environment fails no remote call).                            *)
CommandDeletes(i) ==
  {k \in 1..Len(Calls(i)) : Calls(i)[k].op = "delete" /\ Calls(i)[k].arg = "command"}

C17_Original ==
  \A i \in DOMAIN inv :
    disturbances = 0 => Cardinality(CommandDeletes(i)) <= 1

----------------------------------------------------------------------------
(* C18: an invocation posts 'Tracked in <url>' only after its own          *)
(* issue-tracker create call has returned successfully, and the URL is the *)
(* URL of the issue that call created; in every state the thread holds at  *)
(* most as many tracking markers posted by the bot as the bot has created  *)
(* issues; and every invocation makes at most one issue-tracker write      *)
(* (create or update).                                                     *)
BotMarkers ==
  {k \in 1..Len(msgs) : msgs[k].author = "bot" /\ IsPrefix("Tracked in ", msgs[k].content)}

TrackerWrites(i) == {k \in 1..Len(Calls(i)) : Calls(i)[k].op \in {"create", "update"}}

MarkerAfterOwnCreate(i) ==
  \A k \in 1..Len(Calls(i)) :
    (Calls(i)[k].op = "send" /\ IsPrefix("Tracked in ", Calls(i)[k].arg))
    => /\ k >= 2 /\ Calls(i)[k - 1].op = "create" /\ Calls(i)[k - 1].ok
       /\ inv[i].issueNumber # None
       /\ inv[i].issueNumber[1] \in 1..Len(issues)
       /\ Calls(i)[k].arg = MarkerTextOf(inv[i].issueNumber[1])
       /\ \A j \in DOMAIN inv : (j # i /\ inv[j].issueNumber # None)
                                  => inv[j].issueNumber # inv[i].issueNumber

C18_MarkersFollowCreates ==
  /\ \A i \in DOMAIN inv : MarkerAfterOwnCreate(i) /\ Cardinality(TrackerWrites(i)) <= 1
  /\ Cardinality(BotMarkers) <= Len(issues)
  /\ \A k \in BotMarkers : \E i \in DOMAIN inv : inv[i].markerId = msgs[k].id

\* a !track created issue 1 and posted its marker, an !update then wrote to
\* the same issue: one marker, one issue, one write each
C18_Witness ==
  \E i \in DOMAIN inv : \E j \in DOMAIN inv :
    /\ Tracked(i) /\ IsUpdate(j) /\ inv[j].pc = "done"
    /\ Cardinality(TrackerWrites(i)) = 1 /\ Cardinality(TrackerWrites(j)) = 1
    /\ Cardinality(BotMarkers) = 1 /\ Len(issues) = 1
    /\ \E k \in BotMarkers : msgs[k].content = MarkerTextOf(1) /\ msgs[k].id = inv[i].markerId

----------------------------------------------------------------------------
(* C19 (as amended): a !track rejected as a duplicate and an !update       *)
(* rejected for lack of a marker make no issue-tracker, model or tag call; *)
(* before the rejection they make the reaction and, in the non-AI variant  *)
(* when text follows the command word, the rename of the thread to that    *)
(* text; and every step of the rejection (the fetch that finds it, the     *)
(* notice, the deletion of the command, the wait, the deletion of the      *)
(* notice) leaves the thread's name, its applied tags, the issues and the  *)
(* thread's other messages as they are.                                    *)

\* the handler is in, or through, an inline rejection notice
RejectedInline(r) ==
  r.phase = "try" /\ r.noticeText \in {AlreadyExistsText, NoTrackedText}

\* the calls a rejected invocation makes before its fetch
CallsBeforeFetch(i) ==
  IF variant = "plain" /\ GivenTitle(inv[i].content) # ""
  THEN <<Entry("edit", GivenTitle(inv[i].content), TRUE), Entry("react", Brain(variant), TRUE)>>
  ELSE <<Entry("react", Brain(variant), TRUE)>>

RejectionCalls(i) ==
  /\ \A k \in 1..Len(Calls(i)) :
       Calls(i)[k].op \notin {"create", "update", "get", "model", "setAppliedTags"}
  /\ IsPrefix(CallsBeforeFetch(i), Calls(i))
  /\ Calls(i)[Len(CallsBeforeFetch(i)) + 1].op = "fetch"
  /\ IsPrefix(CallsAfter(i, Len(CallsBeforeFetch(i)) + 1), NoticeCalls(inv[i].noticeText))

\* the step changes nothing but the command message and the notice of i
OthersUntouched(i) ==
  /\ threadName' = threadName /\ appliedTags' = appliedTags /\ issues' = issues
  /\ \A k \in 1..Len(msgs) :
       (msgs[k].id # inv[i].msgId /\ (inv[i].notice = None \/ msgs[k].id # inv[i].notice[1]))
       => \E m \in 1..Len(msgs') : msgs'[m] = msgs[k]
  /\ \A m \in 1..Len(msgs') :
       (\A k \in 1..Len(msgs) : msgs[k] # msgs'[m])
       => (msgs'[m].author = "bot" /\ msgs'[m].content = inv'[i].noticeText)

RejectionStep ==
  \A i \in DOMAIN inv :
    (inv'[i] # inv[i] /\ RejectedInline(inv'[i])) => OthersUntouched(i)

C19_RejectionsChangeNothingElse ==
  /\ [](\A i \in DOMAIN inv : RejectedInline(inv[i]) => RejectionCalls(i))
  /\ [][RejectionStep]_vars

\* the non-AI '!track Crash v2' on a tracked thread was rejected: its
\* notice is gone again, the thread is now called 'Crash v2', the issue
\* and the tags are as the first !track left them
C19_Witness ==
  \E i \in DOMAIN inv : \E j \in DOMAIN inv :
    /\ variant = "plain" /\ Tracked(i) /\ inv[i].content = "!track"
    /\ inv[j].content = "!track Crash v2" /\ RejectedInline(inv[j]) /\ inv[j].pc = "done"
    /\ threadName = "Crash v2"
    /\ Len(issues) = 1 /\ issues[1].title = "Crash on save"
    /\ appliedTags = {"t2"}
    /\ ~MessageExists(msgs, inv[j].msgId) /\ ~MessageExists(msgs, inv[j].notice[1])

\* C19 as stated: whatever text follows the command word, a rejected
\* command does not rename the thread
C19_Original ==
  \A i \in DOMAIN inv :
    RejectedInline(inv[i]) => \A k \in 1..Len(Calls(i)) : Calls(i)[k].op # "edit"

----------------------------------------------------------------------------
(* C20: once a !track has applied the tag, the thread's applied tags are   *)
(* exactly the one tag of the forum named 'tracked' (in any letter case):  *)
(* the tags applied before are replaced, not kept; until then the tags are *)
(* the ones the thread had; and no step of an !update changes the tags or  *)
(* makes a tag call.                                                       *)

\* the ids of the forum's tags named 'tracked'
TrackedIds ==
  {channel.availableTags[k].id : k \in
     {x \in 1..Len(channel.availableTags) :
        channel.availableTags[x].name \in {"tracked", "Tracked", "TRACKED"}}}

TagApplied(i) ==
  \E k \in 1..Len(Calls(i)) : Calls(i)[k].op = "setAppliedTags" /\ Calls(i)[k].ok

TagsReplaced ==
  /\ (\E i \in DOMAIN inv : TagApplied(i))
     => (Cardinality(appliedTags) = 1 /\ appliedTags \subseteq TrackedIds)
  /\ (\A i \in DOMAIN inv : ~TagApplied(i))
     => appliedTags = (IF channel.availableTags = <<>> THEN {} ELSE {"t1"})
  /\ \A i \in DOMAIN inv :
       /\ TagApplied(i) => (IsTrack(i) /\ inv[i].pc = "done" /\ inv[i].phase = "try")
       /\ IsUpdate(i) => ~HasCall(i, "setAppliedTags")

UpdateKeepsTags ==
  \A i \in DOMAIN inv : (IsUpdate(i) /\ inv'[i] # inv[i]) => appliedTags' = appliedTags

C20_TrackedTagReplaces ==
  /\ []TagsReplaced
  /\ [][UpdateKeepsTags]_vars

\* a thread tagged 'solved' was tracked and then updated: its only tag is
\* the 'tracked' one
C20_Witness ==
  \E i \in DOMAIN inv : \E j \in DOMAIN inv :
    /\ TagApplied(i) /\ inv[i].pc = "done"
    /\ IsUpdate(j) /\ inv[j].pc = "done" /\ SentOk(j, UpdatedText)
    /\ appliedTags = {"t2"}
    /\ "t1" \notin appliedTags

====
